---- MODULE Spec2Model ----
(***************************************************************************)
(* Model of the negation-as-failure Inverter of polar-core                 *)
(* (src/polar-core/src/inverter.rs): a Runnable that drives a sub-VM over  *)
(* the negated goal, collects the binding stacks of its results, and at    *)
(* Done inverts and merges them into the binding stack it shares with the  *)
(* parent.                                                                 *)
(*                                                                         *)
(* The sub-VM (PolarVirtualMachine) and the Operation helpers              *)
(* (constraints, inverted_constraints, invert, merge_constraints,          *)
(* clone_with_constraints) live outside inverter.rs; they are modelled     *)
(* from the specification: the VM as a nondeterministic producer of query  *)
(* events, the helpers as described in section 4.4.                        *)
(***************************************************************************)
EXTENDS Integers, Sequences, FiniteSets, TLC

\* ------------------------------------------------------------------ bounds
\* Most results the sub-VM emits during one negation.
MaxResults == 2
\* Most bindings the sub-VM pushes above bsp during one negation.
MaxBindings == 2
\* Most external events (calls, questions) the sub-VM emits.
MaxCalls == 1
\* Most constraints a variable that is Partial before the negation holds.
MaxCsp == 2
MaxFnLen == 3
MaxListLen == 2
\* Most content changes in one edit notification of the analyzer's client.
MaxChanges == 2
\* Most files in one rename or delete notification.
MaxFiles == 2

\* ------------------------------------------------------------------- terms
Vars == {"x", "y"}
\* Values the negated goal can bind a variable to.
Vals(v) == IF v = "x" THEN {1, 2} ELSE {1}

Num(n) == [tag |-> "Number", n |-> n]
Var(v) == [tag |-> "Variable", name |-> v]
Expr(o, a) == [tag |-> "Expression", operator |-> o, args |-> a]
Binding(v, t) == [var |-> v, value |-> t]

IsExpr(t) == t.tag = "Expression"

Other(v) == IF v = "x" THEN "y" ELSE "x"

\* Sequence helpers.
RECURSIVE Reverse(_)
Reverse(s) == IF s = <<>> THEN <<>> ELSE Append(Reverse(Tail(s)), Head(s))

SeqMap(F(_), s) == [i \in 1..Len(s) |-> F(s[i])]

Range(s) == {s[i] : i \in 1..Len(s)}

RECURSIVE SumLen(_)
SumLen(ss) == IF ss = <<>> THEN 0 ELSE Len(Head(ss)) + SumLen(Tail(ss))

\* -------------------------------------------------- Operation (terms.rs)
\* Operator::invert: the comparison that holds exactly when o does not.
InvertedOperator(o) ==
    CASE o = "Unify" -> "Neq"
      [] o = "Neq"   -> "Unify"
      [] o = "Gt"    -> "Leq"
      [] o = "Leq"   -> "Gt"
      [] o = "Lt"    -> "Geq"
      [] o = "Geq"   -> "Lt"

\* Operation::invert on one comparison constraint.
invert(c) == Expr(InvertedOperator(c.operator), c.args)

\* Operation::constraints: the arguments of a conjunction.
constraints(o) == o.args

\* Operation::inverted_constraints(csp): the first csp constraints verbatim,
\* followed by the negation of the conjunction of the rest (one inverted
\* constraint, or by De Morgan a disjunction of the inverted constraints).
inverted_constraints(o, csp) ==
    LET cs  == constraints(o)
        old == SubSeq(cs, 1, csp)
        new == SubSeq(cs, csp + 1, Len(cs))
    IN  CASE Len(new) = 0 -> old
          [] Len(new) = 1 -> Append(old, invert(new[1]))
          [] OTHER        -> Append(old, Expr("Or", SeqMap(invert, new)))

\* Operation::clone_with_constraints: the same conjunction over new arguments.
clone_with_constraints(o, cs) == Expr(o.operator, cs)

\* Operation::merge_constraints: conjunction by appending the other's arguments.
merge_constraints(x, y) == Expr(x.operator, x.args \o y.args)

\* ------------------------------------------ variable state (vm.rs, kb.rs)
Unbound == [st |-> "Unbound"]
Cycle == [st |-> "Cycle"]
Bound(t) == [st |-> "Bound", value |-> t]
Partial(e) == [st |-> "Partial", e |-> e]

\* Index of the latest binding of var among the first bsp bindings, 0 if none.
LatestIndex(stack, var, bsp) ==
    LET hits == {i \in 1..bsp : stack[i].var = var}
    IN  IF hits = {} THEN 0 ELSE CHOOSE i \in hits : \A j \in hits : j <= i

\* PolarVirtualMachine::variable_state_at_point: the state of a variable
\* computed lazily by walking the binding log below bsp.
RECURSIVE StateWalk(_, _, _, _, _)
StateWalk(stack, variable, cur, bsp, fuel) ==
    LET i == LatestIndex(stack, cur, bsp)
    IN  IF i = 0 THEN Unbound
        ELSE LET val == stack[i].value
             IN  CASE val.tag = "Expression" -> Partial(val)
                   [] val.tag = "Variable" ->
                        IF val.name = variable \/ fuel = 0 THEN Cycle
                        ELSE StateWalk(stack, variable, val.name, bsp, fuel - 1)
                   [] OTHER -> Bound(val)

variable_state_at_point(stack, var, bsp) ==
    StateWalk(stack, var, var, bsp, Cardinality(Vars))

\* --------------------------------------------------------- PartialInverter
\* A variant that takes csp to be 0 whatever the old state.
invert_operation_from_zero(old_state, o) ==
    clone_with_constraints(o, inverted_constraints(o, 0))

\* PartialInverter::invert_operation: csp is the number of constraints the
\* variable held before the negation (0 unless it was Partial).
invert_operation(old_state, o) ==
    LET csp == IF old_state.st = "Partial" THEN Len(constraints(old_state.e)) ELSE 0
    IN  clone_with_constraints(o, inverted_constraints(o, csp))

\* A variant that constrains the other variable.
fold_term_other_var(this_var, old_state, t) ==
    IF IsExpr(t)
    THEN invert_operation(old_state, t)
    ELSE Expr("And", <<Expr("Neq", <<Var(Other(this_var)), t>>)>>)

\* A variant that leaves an expression as it is.
fold_term_keep_expression(this_var, old_state, t) ==
    IF IsExpr(t)
    THEN t
    ELSE Expr("And", <<Expr("Neq", <<Var(this_var), t>>)>>)

\* A variant that leaves a value that is no expression as it is.
fold_term_raw_value(this_var, old_state, t) ==
    IF IsExpr(t)
    THEN invert_operation(old_state, t)
    ELSE t

\* Folder::fold_term for PartialInverter: an expression is inverted, any
\* other value v becomes the conjunction And(this_var != v).
fold_term(this_var, old_state, t) ==
    IF IsExpr(t)
    THEN invert_operation(old_state, t)
    ELSE Expr("And", <<Expr("Neq", <<Var(this_var), t>>)>>)

\* ---------------------------------------------------------- invert_partials
\* A variant that inverts the binding of a bound variable like any other.
InvertBindingAlsoBound(b, vmstack, bsp) ==
    LET st == variable_state_at_point(vmstack, b.var, bsp)
    IN  [panic |-> st.st = "Bound" /\ st.value # b.value,
         out |-> <<Binding(b.var, fold_term(b.var, st, b.value))>>]

\* A variant that skips a bound variable without comparing its value.
InvertBindingUnchecked(b, vmstack, bsp) ==
    LET st == variable_state_at_point(vmstack, b.var, bsp)
    IN  IF st.st = "Bound"
        THEN [panic |-> FALSE, out |-> <<>>]
        ELSE [panic |-> FALSE,
              out |-> <<Binding(b.var, fold_term(b.var, st, b.value))>>]

\* One binding of a result, by the state of its variable before the negation.
\* Yields the bindings to add (none or one) or a panic (assert_eq failed).
InvertBinding(b, vmstack, bsp) ==
    LET st == variable_state_at_point(vmstack, b.var, bsp)
    IN  CASE st.st \in {"Unbound", "Cycle"} ->
               [panic |-> FALSE,
                out |-> <<Binding(b.var, fold_term(b.var, Unbound, b.value))>>]
          [] st.st = "Bound" ->
               [panic |-> st.value # b.value, out |-> <<>>]
          [] st.st = "Partial" ->
               [panic |-> FALSE,
                out |-> <<Binding(b.var, fold_term(b.var, Partial(st.e), b.value))>>]

RECURSIVE invert_partials(_, _, _)
invert_partials(bs, vmstack, bsp) ==
    IF bs = <<>> THEN [panic |-> FALSE, bindings |-> <<>>]
    ELSE LET h == InvertBinding(Head(bs), vmstack, bsp)
             t == invert_partials(Tail(bs), vmstack, bsp)
         IN  IF h.panic THEN [panic |-> TRUE, bindings |-> <<>>]
             ELSE [panic |-> t.panic,
                   bindings |-> IF t.panic THEN <<>> ELSE h.out \o t.bindings]

\* ---------------------------------------------------------- dedupe_bindings
\* Walk the stack from its top, keeping the first binding met of each variable.
RECURSIVE KeepFirst(_, _)
KeepFirst(s, seen) ==
    IF s = <<>> THEN <<>>
    ELSE IF Head(s).var \in seen THEN KeepFirst(Tail(s), seen)
         ELSE <<Head(s)>> \o KeepFirst(Tail(s), seen \cup {Head(s).var})

\* A variant that walks the stack from its bottom.
dedupe_bindings_from_bottom(bs) == KeepFirst(bs, {})

dedupe_bindings(bs) == KeepFirst(Reverse(bs), {})

\* ------------------------------------------------------- reduce_constraints
EmptyAcc == [map |-> <<>>, vars |-> <<>>, panic |-> FALSE]

Insert(map, var, value) ==
    [v \in (DOMAIN map) \cup {var} |-> IF v = var THEN value ELSE map[v]]

\* A variant whose occupied entry is overwritten by the new value.
ReduceOneOverwrite(acc, b) ==
    IF b.var \in DOMAIN acc.map
    THEN [acc EXCEPT !.map = Insert(acc.map, b.var, b.value)]
    ELSE [acc EXCEPT !.map = Insert(acc.map, b.var, b.value),
                     !.vars = Append(acc.vars, b.var)]

\* A variant that remembers the variable at every binding it meets.
ReduceOnePushAlways(acc, b) ==
    IF b.var \in DOMAIN acc.map
    THEN LET existing == acc.map[b.var]
         IN  IF IsExpr(existing) /\ IsExpr(b.value)
             THEN [acc EXCEPT !.map =
                      Insert(acc.map, b.var, merge_constraints(existing, b.value)),
                              !.vars = Append(acc.vars, b.var)]
             ELSE [acc EXCEPT !.panic = TRUE]
    ELSE [acc EXCEPT !.map = Insert(acc.map, b.var, b.value),
                     !.vars = Append(acc.vars, b.var)]

\* The closure applied to each deduplicated binding: merge into an occupied
\* entry, or insert into a vacant one and remember the variable.
ReduceOne(acc, b) ==
    IF b.var \in DOMAIN acc.map
    THEN LET existing == acc.map[b.var]
         IN  IF IsExpr(existing) /\ IsExpr(b.value)
             THEN [acc EXCEPT !.map =
                      Insert(acc.map, b.var, merge_constraints(existing, b.value))]
             ELSE [acc EXCEPT !.panic = TRUE]
    ELSE [acc EXCEPT !.map = Insert(acc.map, b.var, b.value),
                     !.vars = Append(acc.vars, b.var)]

RECURSIVE ReduceStack(_, _)
ReduceStack(acc, bs) ==
    IF bs = <<>> \/ acc.panic THEN acc
    ELSE ReduceStack(ReduceOne(acc, Head(bs)), Tail(bs))

RECURSIVE ReduceAll(_, _)
ReduceAll(acc, stacks) ==
    IF stacks = <<>> \/ acc.panic THEN acc
    ELSE ReduceAll(ReduceStack(acc, dedupe_bindings(Head(stacks))), Tail(stacks))

reduce_constraints(stacks) == ReduceAll(EmptyAcc, stacks)

\* ------------------------------------------------------------------- state
VARIABLES
    vm,         \* Inverter.vm: the sub-VM over the negated goal
    bindings,   \* Inverter.bindings: the stack shared with the parent
    bsp,        \* Inverter.bsp: length of the binding stack at entry
    results,    \* Inverter.results: binding stacks of the results collected
    lastEvent,  \* what the latest call of run returned to its caller
    emitted,    \* history: the result stacks the sub-VM has emitted since the
                \* Inverter was made or last returned Done
    vmEvent,    \* history: the latest event the sub-VM returned from vm.run
    hostAnswer, \* history: the answer the host handed over since the latest run
    entry,      \* history: the shared stack when the Inverter was made, or when
                \* it last returned Done
    fn,         \* a helper function applied on its own: name, argument, value
    oso,        \* the policy engine of the host: rules loaded, roles compiled
    twin,       \* a clone of the Inverter made by clone_runnable, if any
    appended,   \* history: who returned Done over which results, in order
    server      \* the analyzer's language server and the message it handled last

\* The Inverter and its histories.
inverterVars ==
    <<vm, bindings, bsp, results, lastEvent, emitted, vmEvent, hostAnswer, entry>>

\* What the Inverter's operations leave alone.
side == <<fn, oso, twin, appended, server>>

vars ==
    <<vm, bindings, bsp, results, lastEvent, emitted, vmEvent, hostAnswer, entry, fn, oso,
      twin, appended, server>>

NoCall == [name |-> "None", arg |-> <<>>, out |-> <<>>]

NoTwin == [exists |-> FALSE]

\* ------------------------------------------------------------ query events
Event(k, id, r) == [kind |-> k, call_id |-> id, result |-> r]
NoEvent == Event("None", 0, FALSE)
DoneEvent(r) == Event("Done", 0, r)
ResultEvent == Event("Result", 0, FALSE)
ErrorEvent == Event("Error", 0, FALSE)
PanicEvent == Event("Panic", 0, FALSE)

\* External events answered through external_question_result.
QuestionKinds == {"ExternalIsa"}
\* External events answered through external_call_result.
CallKinds == {"ExternalCall"}
ExternalKinds == QuestionKinds \cup CallKinds

\* Values the host can answer with: a boolean, a term or no term.
Bool(b) == [tag |-> "Boolean", b |-> b]
NoTerm == [tag |-> "None"]

NoAnswer == [call_id |-> 0, kind |-> "None", value |-> NoTerm]
Answer(id, k, v) == [call_id |-> id, kind |-> k, value |-> v]

\* --------------------------------------------------- the sub-VM (vm.rs)
\* Constraints the negated goal can put on a variable.
NewConstraints(v) == IF v = "x" THEN {Expr("Lt", <<Var(v), Num(0)>>)} ELSE {}

\* The bindings the sub-VM can push for a variable, by its current state: an
\* unbound variable is bound to a value or becomes a partial, a partial
\* gains a constraint, a bound variable is bound again.
PushOptions(stack) ==
    UNION { LET st == variable_state_at_point(stack, v, Len(stack))
            IN  CASE st.st \in {"Unbound", "Cycle"} ->
                       {Binding(v, Num(n)) : n \in Vals(v)}
                       \cup {Binding(v, Expr("And", <<c>>)) : c \in NewConstraints(v)}
                  [] st.st = "Bound" -> {Binding(v, Num(n)) : n \in Vals(v)}
                  [] st.st = "Partial" ->
                       {Binding(v, Expr("And", Append(st.e.args, c))) :
                            c \in NewConstraints(v)}
          : v \in Vars }

\* The stacks the sub-VM can reach from stack by pushing at most n bindings.
RECURSIVE Extensions(_, _)
Extensions(stack, n) ==
    IF n = 0 THEN {stack}
    ELSE {stack} \cup UNION {Extensions(Append(stack, b), n - 1) : b \in PushOptions(stack)}

\* PolarVirtualMachine::run: the sub-VM runs until its next event. It yields
\* a Result (after pushing bindings above bsp), an external call or question
\* under a fresh call id, Done, or an error. An answer handed in since the
\* last event is consumed. Once it has reported Done it is halted and
\* reports Done again.
VmRun(v) ==
    LET resumed == [v EXCEPT !.answer = NoAnswer]
    IN  IF v.halted THEN {[vm |-> resumed, event |-> DoneEvent(r)] : r \in BOOLEAN}
        ELSE
        {[vm |-> [resumed EXCEPT !.bindings = s,
                                 !.nresults = @ + 1,
                                 !.npushed = @ + (Len(s) - Len(v.bindings))],
          event |-> ResultEvent] :
             s \in IF v.nresults < MaxResults
                   THEN Extensions(v.bindings, MaxBindings - v.npushed)
                   ELSE {}}
        \cup {[vm |-> [resumed EXCEPT !.genid = @ + 1],
               event |-> Event(k, v.genid + 1, FALSE)] :
                 k \in IF v.genid < MaxCalls THEN ExternalKinds ELSE {}}
        \cup {[vm |-> [resumed EXCEPT !.halted = TRUE], event |-> DoneEvent(r)] :
                 r \in BOOLEAN}
        \cup {[vm |-> resumed, event |-> ErrorEvent]}

\* PolarVirtualMachine::external_question_result / external_call_result: the
\* sub-VM records the answer for the call id it is given.
VmAnswer(v, id, k, val) == [v EXCEPT !.answer = Answer(id, k, val)]

\* ------------------------------------------------- roles: the test policies
\* A reference to a role or an action: bare, or "type:name" split at the colon.
Ref(ns, name) == [ns |-> ns, name |-> name]

RoleDef(name, permissions, implies) ==
    [name |-> name, permissions |-> permissions, implies |-> implies]

\* A resource(type, name, actions, roles) fact.
ResourceDecl(type, name, actions, roles) ==
    [type |-> type, name |-> name, actions |-> actions, roles |-> roles]

PolOrg ==
    ResourceDecl("Org", "org", <<"invite", "create_repo">>,
        {RoleDef("member", <<Ref("", "create_repo")>>, <<Ref("repo", "reader")>>),
         RoleDef("owner", <<Ref("", "invite")>>,
                 <<Ref("", "member"), Ref("repo", "writer")>>)})

PolRepo ==
    ResourceDecl("Repo", "repo", <<"push", "pull">>,
        {RoleDef("writer", <<Ref("", "push"), Ref("issue", "edit")>>, <<Ref("", "reader")>>),
         RoleDef("reader", <<Ref("", "pull")>>, <<>>)})

PolIssue == ResourceDecl("Issue", "issue", <<"edit">>, {})

\* A source text: its resource facts, whether it holds the parent_child
\* rules and the allow rule, and its actor_has_role_for_resource rule
\* ("roles": a role in actor.roles matches; "any": the rule has no body).
Source(id) ==
    CASE id = "pol" ->
           [resources |-> {PolOrg, PolRepo, PolIssue}, parents |-> TRUE,
            allow |-> TRUE, glue |-> "roles"]
      [] id = "VALID_POL" ->
           [resources |-> {ResourceDecl("Repo", "repo", <<"read">>, {})},
            parents |-> FALSE, allow |-> FALSE, glue |-> "any"]
      [] id = "invalid_pol" ->
           [resources |-> {ResourceDecl("Org", "org", <<>>, {})},
            parents |-> FALSE, allow |-> FALSE, glue |-> "any"]
      [] id = "invalid_roles.polar" ->
           [resources |-> {ResourceDecl("Org", "org", <<>>, {})},
            parents |-> FALSE, allow |-> FALSE, glue |-> "any"]

Strings == {"pol", "VALID_POL", "invalid_pol"}
Files == {"invalid_roles.polar"}

\* The host's objects.
Org(name) == [type |-> "Org", name |-> name]
Repo(name, org) == [type |-> "Repo", name |-> name, org |-> org]
Issue(name, repo) == [type |-> "Issue", name |-> name, repo |-> repo]
Role(name, resource) == [name |-> name, resource |-> resource]
User(name, roles) == [name |-> name, roles |-> roles]

osohq == Org("oso")
apple == Org("apple")
oso_repo == Repo("oso", osohq)
ios == Repo("ios", apple)
bug == Issue("bug", oso_repo)
laggy == Issue("laggy", ios)

Orgs == {osohq, apple}
Repos == {oso_repo, ios}
Issues == {bug, laggy}

osohq_owner == Role("owner", osohq)
osohq_member == Role("member", osohq)

\* dave and gwen as in the test; gabe with no role or with one role, on
\* either organisation.
Users ==
    {User("dave", {osohq_owner}), User("gwen", {osohq_member})}
    \cup {User("gabe", rs) :
            rs \in {s \in SUBSET {Role(n, o) : n \in {"owner", "member"}, o \in Orgs} :
                        Cardinality(s) <= 1}}

Actions == {"invite", "create_repo", "push", "pull", "edit", "read"}

\* ------------------------------------------- roles compiler and validator
NoError == [kind |-> "None", msg |-> "", context |-> "None"]

RolesValidationError(msg) == [kind |-> "RolesValidation", msg |-> msg, context |-> "None"]

NoQuery == [rule |-> "None"]

NewOso ==
    [kb |-> {}, roles_enabled |-> FALSE, compiled |-> {}, error |-> NoError,
     last |-> "new", src |-> "", before |-> [results |-> {}, compiled |-> {}, kb |-> {}],
     query |-> NoQuery, nonempty |-> FALSE]

\* The resource facts of a rule set.
Decls(kb) == UNION {Source(id).resources : id \in kb}

\* A variant that accepts every rule set.
validate_roles_accept(decls) == NoError

\* Validation: every declared resource has an action or a role.
validate_roles(decls) ==
    IF \E d \in decls : d.actions = <<>> /\ d.roles = {}
    THEN RolesValidationError("Must define actions or roles.")
    ELSE NoError

\* The role or action a reference names, seen from the resource named tname.
Resolve(ref, tname) == <<IF ref.ns = "" THEN tname ELSE ref.ns, ref.name>>

\* The roles a role of the compiled declarations implies directly.
ImpliedBy(compiled, q) ==
    UNION {{Resolve(d.roles_implies[i], q[1]) : i \in 1..Len(d.roles_implies)} :
             d \in {[roles_implies |-> r.implies] :
                       r \in UNION {{r \in d.roles : r.name = q[2]} :
                                      d \in {d \in compiled : d.name = q[1]}}}}

\* A variant that stops at the roles implied directly.
implied_roles_direct(compiled, qs) ==
    qs \cup UNION {ImpliedBy(compiled, q) : q \in qs}

\* The transitive closure of implies from the roles qs.
RECURSIVE implied_roles(_, _)
implied_roles(compiled, qs) ==
    LET next == qs \cup UNION {ImpliedBy(compiled, q) : q \in qs}
    IN  IF next = qs THEN qs ELSE implied_roles(compiled, next)

\* Whether the role q grants the action on resources declared by target.
Grants(compiled, q, target, action) ==
    /\ \E i \in 1..Len(target.actions) : target.actions[i] = action
    /\ \E d \in compiled : \E r \in d.roles :
          /\ d.name = q[1] /\ r.name = q[2]
          /\ \E i \in 1..Len(r.permissions) :
                Resolve(r.permissions[i], q[1]) = <<target.name, action>>

\* parent_child(parent, child) by the rules of the knowledge base.
parent_child(kb, parent, child) ==
    /\ \E id \in kb : Source(id).parents
    /\ \/ child.type = "Repo" /\ parent.type = "Org" /\ child.org = parent
       \/ child.type = "Issue" /\ parent.type = "Repo" /\ child.repo = parent

\* The resource and its ancestors along the parent_child chain.
RECURSIVE Ancestry(_, _)
Ancestry(kb, rs) ==
    LET next == rs \cup {p \in Orgs \cup Repos : \E c \in rs : parent_child(kb, p, c)}
    IN  IF next = rs THEN rs ELSE Ancestry(kb, next)

\* actor_has_role_for_resource(actor, role_name, role_resource) by the rules
\* of the knowledge base.
actor_has_role_for_resource(kb, actor, role_name, role_resource) ==
    \E id \in kb :
        \/ Source(id).glue = "any"
        \/ /\ Source(id).glue = "roles"
           /\ \E role \in actor.roles :
                 role.name = role_name /\ role.resource = role_resource

\* The derived rule role_allows(actor, action, resource).
role_allows(o, actor, action, resource) ==
    /\ o.roles_enabled
    /\ \E target \in o.compiled :
          /\ target.type = resource.type
          /\ \E held \in Ancestry(o.kb, {resource}) :
                \E d \in o.compiled : \E r \in d.roles :
                    /\ d.type = held.type
                    /\ actor_has_role_for_resource(o.kb, actor, r.name, held)
                    /\ \E q \in implied_roles(o.compiled, {<<d.name, r.name>>}) :
                          Grants(o.compiled, q, target, action)

\* The queries a host asks: allow over the users, actions and objects, and
\* the resource facts of a type.
Queries ==
    {[rule |-> "allow", actor |-> u, action |-> a, resource |-> r] :
        u \in Users, a \in Actions, r \in Orgs \cup Repos \cup Issues}
    \cup {[rule |-> "resource", type |-> t] : t \in {"Org", "Repo", "Issue"}}

\* query_rule: whether the query has a result.
HasResult(o, q) ==
    IF q.rule = "allow"
    THEN /\ \E id \in o.kb : Source(id).allow
         /\ role_allows(o, q.actor, q.action, q.resource)
    ELSE \E d \in Decls(o.kb) : d.type = q.type

AllResults(o) == {q \in Queries : HasResult(o, q)}

Snapshot(o) == [results |-> AllResults(o), compiled |-> o.compiled, kb |-> o.kb]

\* A variant that commits the rules before it validates them.
load_commit_first(o, src) ==
    LET proposed == o.kb \cup {src}
        err == IF o.roles_enabled THEN validate_roles(Decls(proposed)) ELSE NoError
    IN  [o EXCEPT !.kb = proposed,
                  !.compiled = IF o.roles_enabled THEN Decls(proposed) ELSE @,
                  !.error = err]

\* load: with roles enabled the full proposed rule set is validated, and
\* committed and compiled only if it passes.
load(o, src) ==
    LET proposed == o.kb \cup {src}
        err == IF o.roles_enabled THEN validate_roles(Decls(proposed)) ELSE NoError
    IN  IF err # NoError
        THEN [o EXCEPT !.error = err]
        ELSE [o EXCEPT !.kb = proposed,
                       !.compiled = IF o.roles_enabled THEN Decls(proposed) ELSE @,
                       !.error = NoError]

\* enable_roles: validate and compile the rules loaded so far.
enable_roles(o) ==
    LET err == validate_roles(Decls(o.kb))
    IN  IF err # NoError
        THEN [o EXCEPT !.error = err]
        ELSE [o EXCEPT !.roles_enabled = TRUE, !.compiled = Decls(o.kb),
                       !.error = NoError]

\* A load declares resource types the knowledge base does not declare yet.
Loadable(o, src) ==
    /\ src \notin o.kb
    /\ \A d \in Source(src).resources : \A e \in Decls(o.kb) : d.type # e.type

Stamped(o, op, src, q, nonempty) ==
    [o EXCEPT !.last = op, !.src = src, !.query = q, !.nonempty = nonempty]

LoadStr ==
    /\ \E src \in Strings :
          /\ Loadable(oso, src)
          /\ oso' = Stamped([load(oso, src) EXCEPT !.before = Snapshot(oso)],
                         "load_str", src, NoQuery, FALSE)
    /\ UNCHANGED <<inverterVars, fn, twin, appended, server>>

LoadFile ==
    /\ \E src \in Files :
          /\ Loadable(oso, src)
          /\ oso' = Stamped([load(oso, src) EXCEPT !.before = Snapshot(oso)],
                         "load_file", src, NoQuery, FALSE)
    /\ UNCHANGED <<inverterVars, fn, twin, appended, server>>

EnableRoles ==
    /\ ~oso.roles_enabled
    /\ oso' = Stamped([enable_roles(oso) EXCEPT !.before = Snapshot(oso)],
                   "enable_roles", "", NoQuery, FALSE)
    /\ UNCHANGED <<inverterVars, fn, twin, appended, server>>

QueryRule ==
    /\ \E q \in Queries :
          oso' = Stamped(oso, "query_rule", "", q, HasResult(oso, q))
    /\ UNCHANGED <<inverterVars, fn, twin, appended, server>>

NextRoles == LoadStr \/ LoadFile \/ EnableRoles \/ QueryRule

\* ------------------------------------------------ the analyzer's server
\* The language server of polar-analyzer (src/polar-analyzer/src/server/
\* main.rs and documents.rs): main_loop reads one message of the client at a
\* time, runs its handler, and sends what the handler left on the pending
\* queue. The analyzer (crate::Polar) lives outside these files: its load
\* enters by its outcome, its get_unused_rules by find_missing_rules.

Uris == {"a.polar", "b.polar"}

\* The texts a client sends: whether the text parses, the rules it defines
\* and the rules its bodies call, in the order of the text. Under a uri the
\* analyzer holds the text loaded last, or "none".
Document(id) ==
    CASE id = "defs"  -> [parses |-> TRUE, defines |-> {"g"}, calls |-> <<>>]
      [] id = "calls" -> [parses |-> TRUE, defines |-> {"f"}, calls |-> <<"g", "h">>]
      [] id = "bad"   -> [parses |-> FALSE, defines |-> {}, calls |-> <<>>]

Texts == {"defs", "calls", "bad"}

\* A content change of an edit: the new text, and whether it carries a range.
ContentChanges ==
    {[range |-> FALSE, text |-> t] : t \in Texts} \cup {[range |-> TRUE, text |-> "defs"]}

RECURSIVE ListsOf(_, _)
\* The lists of at most n elements of S.
ListsOf(S, n) ==
    IF n = 0 THEN {<<>>}
    ELSE LET shorter == ListsOf(S, n - 1)
         IN  shorter \cup {Append(l, e) : l \in {k \in shorter : Len(k) = n - 1}, e \in S}

Notification(method, params) ==
    [type |-> "Notification", method |-> method, params |-> params]

Request(id, method, params) ==
    [type |-> "Request", id |-> id, method |-> method, params |-> params]

Response(id, result) == [type |-> "Response", id |-> id, result |-> result]

\* Server::default, before any message: nothing loaded, the lock free, the
\* queue empty. The last five fields are history of the latest message:
\* the message, what its handler queued (in the order queued), what was sent
\* to the client (in the order sent), the loads attempted, and each step on
\* the analyzer with the state of its lock at that step.
NewServer ==
    [kb      |-> [u \in Uris |-> "none"],
     lock    |-> "free",
     pending |-> <<>>,
     running |-> TRUE,
     msg     |-> [type |-> "None"],
     queued  |-> <<>>,
     sent    |-> <<>>,
     loads   |-> <<>>,
     trace   |-> <<>>]

\* server.analyzer.write().unwrap()
analyzer_write(s) == [s EXCEPT !.lock = "write"]

\* server.analyzer.read().unwrap()
analyzer_read(s) == [s EXCEPT !.lock = "read"]

\* The guard goes out of scope.
drop(s) == [s EXCEPT !.lock = "free"]

\* A step of a handler, with the lock the thread holds as it takes it.
Step(s, op) == [s EXCEPT !.trace = Append(@, [op |-> op, lock |-> s.lock])]

\* ---- the analyzer
\* Polar::load: a text that parses replaces what was loaded under the uri;
\* after one that does not, the earlier source is kept or is gone.
polar_load(kb, src, uri, kept) ==
    IF Document(src).parses
    THEN [ok |-> TRUE, kb |-> [kb EXCEPT ![uri] = src], error |-> "none"]
    ELSE [ok |-> FALSE,
          kb |-> IF kept THEN kb ELSE [kb EXCEPT ![uri] = "none"],
          error |-> "parse error"]

\* One entry for each call, in the order of the text, of a rule the
\* knowledge base does not hold.
find_missing_rules(kb, src) ==
    LET rules   == UNION {Document(kb[u]).defines : u \in {v \in Uris : kb[v] # "none"}}
        missing == SelectSeq(Document(src).calls, LAMBDA c : c \notin rules)
    IN  [i \in 1..Len(missing) |->
            [rule_error |-> <<"There are no rules with the name", missing[i]>>,
             start |-> 0, end |-> 0]]

get_unused_rules(kb, uri) ==
    IF kb[uri] = "none" THEN <<>> ELSE find_missing_rules(kb, kb[uri])

\* ---- documents.rs
error_to_diagnostic(error) ==
    [severity |-> "Error", message |-> <<error>>, source |-> "polar-analzyer"]

push_diagnostics(s, uri, diagnostics) ==
    LET m == Notification("textDocument/publishDiagnostics",
                          [uri |-> uri, diagnostics |-> diagnostics, version |-> "None"])
    IN  [Step(s, "push_diagnostics") EXCEPT !.pending = Append(@, m),
                                            !.queued = Append(@, m)]

try_load_file_skip_empty(s, src, uri, kept) ==
    LET r      == polar_load(s.kb, src, uri, kept)
        loaded == [Step(s, "load") EXCEPT
                      !.kb = r.kb,
                      !.loads = Append(@, [uri |-> uri, src |-> src, ok |-> r.ok])]
        unused == get_unused_rules(loaded.kb, uri)
    IN  IF ~r.ok THEN push_diagnostics(loaded, uri, <<error_to_diagnostic(r.error)>>)
        ELSE IF unused = <<>> THEN Step(loaded, "get_unused_rules")
        ELSE push_diagnostics(
                 Step(loaded, "get_unused_rules"), uri,
                 [i \in 1..Len(unused) |->
                     [severity |-> "Warning",
                      message  |-> <<"Rule does not exist: ">> \o unused[i].rule_error,
                      source   |-> "none"]])

try_load_file(s, src, uri, kept) ==
    LET r      == polar_load(s.kb, src, uri, kept)
        loaded == [Step(s, "load") EXCEPT
                      !.kb = r.kb,
                      !.loads = Append(@, [uri |-> uri, src |-> src, ok |-> r.ok])]
        unused == get_unused_rules(loaded.kb, uri)
    IN  IF ~r.ok THEN push_diagnostics(loaded, uri, <<error_to_diagnostic(r.error)>>)
        ELSE push_diagnostics(
                 Step(loaded, "get_unused_rules"), uri,
                 [i \in 1..Len(unused) |->
                     [severity |-> "Warning",
                      message  |-> <<"Rule does not exist: ">> \o unused[i].rule_error,
                      source   |-> "none"]])

open_document_drop_early(s, params, kept) ==
    LET polar  == analyzer_write(s)
        r      == polar_load(polar.kb, params.text, params.uri, kept)
        loaded == drop([Step(polar, "load") EXCEPT
                           !.kb = r.kb,
                           !.loads = Append(@, [uri |-> params.uri, src |-> params.text,
                                                ok |-> r.ok])])
        unused == get_unused_rules(loaded.kb, params.uri)
    IN  [server |->
            IF ~r.ok
            THEN push_diagnostics(loaded, params.uri, <<error_to_diagnostic(r.error)>>)
            ELSE push_diagnostics(
                     Step(loaded, "get_unused_rules"), params.uri,
                     [i \in 1..Len(unused) |->
                         [severity |-> "Warning",
                          message  |-> <<"Rule does not exist: ">> \o unused[i].rule_error,
                          source   |-> "none"]]),
         err |-> "none"]

open_document(s, params, kept) ==
    LET polar == analyzer_write(s)
    IN  [server |-> drop(try_load_file(polar, params.text, params.uri, kept)),
         err |-> "none"]

edit_document_any_changes(s, params, kept) ==
    LET RECURSIVE each(_, _)
        each(polar, changes) ==
            IF changes = <<>> THEN [server |-> drop(polar), err |-> "none"]
            ELSE IF Head(changes).range
                 THEN [server |-> drop(polar),
                       err |-> "incremental changes are not yet supported"]
                 ELSE each(try_load_file(polar, Head(changes).text, params.uri, kept),
                           Tail(changes))
    IN  each(analyzer_write(s), params.content_changes)

edit_document_load_first(s, params, kept) ==
    LET RECURSIVE each(_, _)
        each(polar, changes) ==
            IF changes = <<>> THEN [server |-> drop(polar), err |-> "none"]
            ELSE LET loaded == try_load_file(polar, Head(changes).text, params.uri, kept)
                 IN  IF Head(changes).range
                     THEN [server |-> drop(loaded),
                           err |-> "incremental changes are not yet supported"]
                     ELSE each(loaded, Tail(changes))
    IN  IF Len(params.content_changes) > 1
        THEN [server |-> drop(analyzer_write(s)),
              err |-> "not sure how to handle multiple changes to the same file"]
        ELSE each(analyzer_write(s), params.content_changes)

edit_document(s, params, kept) ==
    LET RECURSIVE each(_, _)
        \* for change in params.content_changes
        each(polar, changes) ==
            IF changes = <<>> THEN [server |-> drop(polar), err |-> "none"]
            ELSE IF Head(changes).range
                 THEN [server |-> drop(polar),
                       err |-> "incremental changes are not yet supported"]
                 ELSE each(try_load_file(polar, Head(changes).text, params.uri, kept),
                           Tail(changes))
    IN  IF Len(params.content_changes) > 1
        THEN [server |-> drop(analyzer_write(s)),
              err |-> "not sure how to handle multiple changes to the same file"]
        ELSE each(analyzer_write(s), params.content_changes)

\* polar.rename(&old, &new)? for each file: the rename numbered fails, if
\* any, returns its error; the others move what is loaded under old to new.
rename_files(s, params, fails) ==
    LET RECURSIVE each(_, _, _)
        each(polar, files, n) ==
            IF files = <<>> THEN [server |-> drop(polar), err |-> "none"]
            ELSE LET old == Head(files).old_uri
                     new == Head(files).new_uri
                     renaming == Step(polar, "rename")
                 IN  IF n = 1 THEN [server |-> drop(renaming), err |-> "rename failed"]
                     ELSE each(IF renaming.kb[old] = "none" \/ old = new THEN renaming
                               ELSE [renaming EXCEPT !.kb[new] = renaming.kb[old],
                                                     !.kb[old] = "none"],
                               Tail(files), n - 1)
    IN  each(analyzer_write(s), params.files, fails)

delete_files(s, params) ==
    LET RECURSIVE each(_, _)
        each(polar, files) ==
            IF files = <<>> THEN [server |-> drop(polar), err |-> "none"]
            ELSE each([Step(polar, "delete") EXCEPT !.kb[Head(files)] = "none"], Tail(files))
    IN  each(analyzer_write(s), params.files)

\* ---- main.rs
\* The handler registered for the method of the notification, or Ok(()).
\* env is what the environment decides meanwhile: whether a failed load keeps
\* the earlier source, and which rename fails (0: none).
handle_notification(s, not, env) ==
    CASE not.method = "textDocument/didOpen"      -> open_document(s, not.params, env.kept)
      [] not.method = "workspace/didRenameFiles"  -> rename_files(s, not.params, env.fails)
      [] not.method = "workspace/didDeleteFiles"  -> delete_files(s, not.params)
      [] not.method = "textDocument/didChange"    -> edit_document(s, not.params, env.kept)
      [] OTHER                                    -> [server |-> s, err |-> "none"]

\* Some(response) of the handler registered for the method, or None. The
\* handlers of document symbols and of hover read the analyzer under
\* server.analyzer.read().unwrap(), a temporary of the call; those of
\* completion do not touch it.
handle_request(s, req) ==
    LET uri == req.params.uri
        h == CASE req.method = "textDocument/documentSymbol" ->
                      LET polar == Step(analyzer_read(s), "get_document_symbols")
                      IN  [server |-> drop(polar),
                           result |-> IF polar.kb[uri] = "none" THEN {}
                                      ELSE Document(polar.kb[uri]).defines]
               [] req.method = "textDocument/completion" ->
                      [server |-> Step(s, "get_completions"), result |-> {"completions"}]
               [] req.method = "completionItem/resolve" ->
                      [server |-> Step(s, "resolve_completion"), result |-> {"item"}]
               [] req.method = "textDocument/hover" ->
                      LET polar == Step(analyzer_read(s), "get_hover")
                      IN  [server |-> drop(polar), result |-> {polar.kb[uri]}]
    IN  IF req.method \notin {"textDocument/documentSymbol", "textDocument/completion",
                               "completionItem/resolve", "textDocument/hover"}
        THEN [server |-> s, some |-> FALSE]
        ELSE [server |-> h.server, some |-> TRUE, resp |-> Response(req.id, h.result)]

RECURSIVE drain(_)
\* while let Some(msg) = server.pending_messages.lock().unwrap().pop()
\*     { connection.sender.send(msg)?; }
drain(s) ==
    IF s.pending = <<>> THEN s
    ELSE drain([s EXCEPT !.pending = SubSeq(@, 1, Len(@) - 1),
                         !.sent = Append(@, s.pending[Len(s.pending)])])

\* One turn of the loop of main_loop over the message received; the
\* histories start again with each message.
main_loop(s, msg, env) ==
    LET got == [s EXCEPT !.msg = msg, !.queued = <<>>, !.sent = <<>>, !.loads = <<>>,
                         !.trace = <<>>]
    IN  CASE msg.type = "Request" ->
                 IF msg.method = "shutdown"
                 THEN [got EXCEPT !.sent = Append(@, Response(msg.id, {})),
                                  !.running = FALSE]
                 ELSE LET h == handle_request(got, msg)
                      IN  drain(IF h.some
                                THEN [h.server EXCEPT !.pending = Append(@, h.resp),
                                                      !.queued = Append(@, h.resp)]
                                ELSE h.server)
          [] msg.type = "Response" -> drain(got)
          [] msg.type = "Notification" ->
                 LET h == handle_notification(got, msg, env)
                 IN  drain(IF h.err # "none"
                           THEN [h.server EXCEPT
                                    !.sent = Append(@, Notification(
                                                 "window/logMessage",
                                                 [message |-> h.err, typ |-> "Error"]))]
                           ELSE h.server)

\* ---- the messages of the client, one action for each kind
DidOpenTextDocument ==
    \E uri \in Uris, text \in Texts, kept \in BOOLEAN :
        /\ server.running
        /\ server' = main_loop(server,
                                Notification("textDocument/didOpen",
                                             [uri |-> uri, text |-> text]),
                                [kept |-> kept, fails |-> 0])
        /\ UNCHANGED <<inverterVars, fn, oso, twin, appended>>

DidChangeTextDocument ==
    \E uri \in Uris, changes \in ListsOf(ContentChanges, MaxChanges), kept \in BOOLEAN :
        /\ server.running
        /\ server' = main_loop(server,
                                Notification("textDocument/didChange",
                                             [uri |-> uri, content_changes |-> changes]),
                                [kept |-> kept, fails |-> 0])
        /\ UNCHANGED <<inverterVars, fn, oso, twin, appended>>

DidRenameFiles ==
    \E files \in ListsOf({[old_uri |-> o, new_uri |-> n] : o \in Uris, n \in Uris}, MaxFiles) :
        \E fails \in 0..Len(files) :
            /\ server.running
            /\ server' = main_loop(server,
                                    Notification("workspace/didRenameFiles",
                                                 [files |-> files]),
                                    [kept |-> TRUE, fails |-> fails])
            /\ UNCHANGED <<inverterVars, fn, oso, twin, appended>>

DidDeleteFiles ==
    \E files \in ListsOf(Uris, MaxFiles) :
        /\ server.running
        /\ server' = main_loop(server,
                                Notification("workspace/didDeleteFiles", [files |-> files]),
                                [kept |-> TRUE, fails |-> 0])
        /\ UNCHANGED <<inverterVars, fn, oso, twin, appended>>

\* A notification no handler is registered for.
OtherNotification ==
    /\ server.running
    /\ server' = main_loop(server, Notification("initialized", [uri |-> "none"]),
                            [kept |-> TRUE, fails |-> 0])
    /\ UNCHANGED <<inverterVars, fn, oso, twin, appended>>

\* A request, of a method a handler is registered for or of another one.
ClientRequest ==
    \E id \in {1, 2}, uri \in Uris,
       method \in {"textDocument/documentSymbol", "textDocument/completion",
                   "completionItem/resolve", "textDocument/hover",
                   "textDocument/definition"} :
        /\ server.running
        /\ server' = main_loop(server, Request(id, method, [uri |-> uri]),
                                [kept |-> TRUE, fails |-> 0])
        /\ UNCHANGED <<inverterVars, fn, oso, twin, appended>>

\* connection.handle_shutdown(&req)? answers the request and ends the loop.
Shutdown ==
    \E id \in {1, 2} :
        /\ server.running
        /\ server' = main_loop(server, Request(id, "shutdown", [uri |-> "none"]),
                                [kept |-> TRUE, fails |-> 0])
        /\ UNCHANGED <<inverterVars, fn, oso, twin, appended>>

\* A response of the client: it is logged.
ClientResponse ==
    \E id \in {1, 2} :
        /\ server.running
        /\ server' = main_loop(server, Response(id, {}), [kept |-> TRUE, fails |-> 0])
        /\ UNCHANGED <<inverterVars, fn, oso, twin, appended>>

NextServer ==
    \/ DidOpenTextDocument
    \/ DidChangeTextDocument
    \/ DidRenameFiles
    \/ DidDeleteFiles
    \/ OtherNotification
    \/ ClientRequest
    \/ Shutdown
    \/ ClientResponse

\* ------------------------------------------------------------ Inverter::new
\* The i-th constraint a variable holds before the negation.
PreConstraint(v, i) ==
    IF i = 1 THEN Expr("Gt", <<Var(v), Num(1)>>) ELSE Expr("Neq", <<Var(v), Num(10 + i)>>)

PrePartial(v, n) == Expr("And", [i \in 1..n |-> PreConstraint(v, i)])

\* What the parent has bound before the negation: each variable is unbound,
\* bound to a value or a partial, or the two are unified with each other (a
\* cycle).
PreX ==
    {<<>>, <<Binding("x", Num(1))>>}
    \cup {<<Binding("x", PrePartial("x", n))>> : n \in 1..MaxCsp}

PreY == {<<>>, <<Binding("y", Num(1))>>}

PreCycle == <<Binding("x", Var("y")), Binding("y", Var("x"))>>

PreStacks == {px \o py : px \in PreX, py \in PreY} \cup {PreCycle}

\* Inverter::new: the sub-VM is a clone of the parent VM over the negated
\* goal, bsp is the length of the binding stack at entry, no result yet.
\* The caller (vm.rs) hands in the shared stack; following section 4.4 it
\* holds the parent's bindings at entry, bsp of them.
InitInverter ==
    \E pre \in PreStacks :
        /\ vm = [bindings |-> pre, inverting |-> TRUE, genid |-> 0, halted |-> FALSE,
                 answer |-> NoAnswer, nresults |-> 0, npushed |-> 0]
        /\ bindings = pre
        /\ bsp = Len(pre)
        /\ results = <<>>
        /\ lastEvent = NoEvent
        /\ emitted = <<>>
        /\ vmEvent = NoEvent
        /\ hostAnswer = NoAnswer
        /\ entry = pre

Init ==
    /\ InitInverter
    /\ fn = NoCall
    /\ oso = NewOso
    /\ twin = NoTwin
    /\ appended = <<>>
    /\ server = NewServer

\* The Inverter's fields.
Self == [vm |-> vm, bindings |-> bindings, bsp |-> bsp, results |-> results]

\* ------------------------------------------------------------ Inverter::run
\* A variant that also commits the drained bindings to the shared stack.
on_result_commit(self) ==
    [self EXCEPT
        !.vm.bindings = SubSeq(self.vm.bindings, 1, self.bsp),
        !.bindings = self.bindings
                     \o SubSeq(self.vm.bindings, self.bsp + 1, Len(self.vm.bindings)),
        !.results = Append(self.results,
                           SubSeq(self.vm.bindings, self.bsp + 1, Len(self.vm.bindings)))]

\* A variant whose buffer holds the latest result only.
on_result_replace(self) ==
    [self EXCEPT
        !.vm.bindings = SubSeq(self.vm.bindings, 1, self.bsp),
        !.results = <<SubSeq(self.vm.bindings, self.bsp + 1, Len(self.vm.bindings))>>]

\* The Result arm: drain the sub-VM's bindings above bsp into the buffer.
on_result(self) ==
    [self EXCEPT
        !.vm.bindings = SubSeq(self.vm.bindings, 1, self.bsp),
        !.results = Append(self.results,
                           SubSeq(self.vm.bindings, self.bsp + 1, Len(self.vm.bindings)))]

\* `result` when no result was collected: results.is_empty().
no_results_flag_negated == FALSE
no_results_flag == TRUE

\* `result` after the map over ordered_vars: set by the closure, which runs
\* once per variable.
inverted_flag_always(ordered_vars) == TRUE
inverted_flag(ordered_vars) == ordered_vars # <<>>

\* bindings.borrow_mut().extend(new_bindings)
extend_in_front(shared, new_bindings) == new_bindings \o shared
extend(shared, new_bindings) == shared \o new_bindings

\* A variant that reads the buffer without draining it.
on_done_keep_results(self) ==
    IF self.results = <<>>
    THEN [self |-> self, event |-> DoneEvent(no_results_flag)]
    ELSE LET res == self.results
             inverted ==
                 [i \in 1..Len(res) |-> invert_partials(res[i], self.vm.bindings, self.bsp)]
             reduced == reduce_constraints([i \in 1..Len(res) |-> inverted[i].bindings])
             new_bindings ==
                 [i \in 1..Len(reduced.vars) |->
                     Binding(reduced.vars[i], reduced.map[reduced.vars[i]])]
         IN  IF (\E i \in 1..Len(res) : inverted[i].panic)
                \/ reduced.panic
                \/ DOMAIN reduced.map # Range(reduced.vars)
             THEN [self |-> self, event |-> PanicEvent]
             ELSE [self |-> [self EXCEPT !.bindings = extend(self.bindings, new_bindings)],
                   event |-> DoneEvent(inverted_flag(reduced.vars))]

\* The Done arm: no result collected means success; otherwise invert every
\* collected result, merge, append one binding per merged variable to the
\* shared stack, and succeed iff there was one. A failed assertion panics.
on_done(self) ==
    IF self.results = <<>>
    THEN [self |-> self, event |-> DoneEvent(no_results_flag)]
    ELSE LET res == self.results
             inverted ==
                 [i \in 1..Len(res) |-> invert_partials(res[i], self.vm.bindings, self.bsp)]
             reduced == reduce_constraints([i \in 1..Len(res) |-> inverted[i].bindings])
             new_bindings ==
                 [i \in 1..Len(reduced.vars) |->
                     Binding(reduced.vars[i], reduced.map[reduced.vars[i]])]
         IN  IF (\E i \in 1..Len(res) : inverted[i].panic)
                \/ reduced.panic
                \/ DOMAIN reduced.map # Range(reduced.vars)
             THEN [self |-> [self EXCEPT !.results = <<>>], event |-> PanicEvent]
             ELSE [self |-> [self EXCEPT !.results = <<>>,
                                         !.bindings = extend(self.bindings, new_bindings)],
                   event |-> DoneEvent(inverted_flag(reduced.vars))]

\* A variant that returns the event under a call id of its own.
on_event_renumbered(self, ev) ==
    [self |-> self, event |-> [ev EXCEPT !.call_id = Len(self.results) + 1]]

\* The last arm: any other event is returned as it is.
on_event(self, ev) == [self |-> self, event |-> ev]

\* The loop of run: call the sub-VM until an event other than Result; an
\* error of the sub-VM is returned at once.
RECURSIVE RunLoop(_, _)
RunLoop(self, hist) ==
    UNION { LET s1 == [self EXCEPT !.vm = o.vm]
            IN  CASE o.event.kind = "Result" ->
                       RunLoop(on_result(s1),
                               Append(hist, SubSeq(o.vm.bindings, self.bsp + 1,
                                                   Len(o.vm.bindings))))
                  [] o.event.kind = "Done" ->
                       {[out |-> on_done(s1), emitted |-> hist, vmEvent |-> o.event]}
                  [] o.event.kind = "Error" ->
                       {[out |-> [self |-> s1, event |-> o.event],
                         emitted |-> hist, vmEvent |-> o.event]}
                  [] OTHER ->
                       {[out |-> on_event(s1, o.event), emitted |-> hist,
                         vmEvent |-> o.event]}
          : o \in VmRun(self.vm) }

\* The sub-query failed with an error or the Inverter panicked: no one runs
\* it again. After Done nothing in run keeps a caller from running it again.
Finished == lastEvent.kind \in {"Error", "Panic"}

Run ==
    /\ ~Finished
    /\ \E r \in RunLoop(Self, IF lastEvent.kind = "Done" THEN <<>> ELSE emitted) :
          /\ vm' = r.out.self.vm
          /\ bindings' = r.out.self.bindings
          /\ bsp' = r.out.self.bsp
          /\ results' = r.out.self.results
          /\ lastEvent' = r.out.event
          /\ emitted' = r.emitted
          /\ vmEvent' = r.vmEvent
    /\ hostAnswer' = NoAnswer
    /\ entry' = IF lastEvent.kind = "Done" THEN bindings ELSE entry
    /\ UNCHANGED side

\* The call ids the host can answer under: that of the event, or the next.
CallIds(ev) == {ev.call_id, ev.call_id + 1}

\* Inverter::external_question_result: forward to the sub-VM.
external_question_result(self, call_id, answer) ==
    [self EXCEPT !.vm = VmAnswer(self.vm, call_id, "question", answer)]

\* Inverter::external_call_result: forward to the sub-VM.
external_call_result(self, call_id, term) ==
    [self EXCEPT !.vm = VmAnswer(self.vm, call_id, "call", term)]

SetSelf(s) ==
    /\ vm' = s.vm
    /\ bindings' = s.bindings
    /\ bsp' = s.bsp
    /\ results' = s.results

ExternalQuestionResult ==
    /\ lastEvent.kind \in QuestionKinds
    /\ \E call_id \in CallIds(lastEvent), answer \in {Bool(TRUE), Bool(FALSE)} :
          /\ SetSelf(external_question_result(Self, call_id, answer))
          /\ hostAnswer' = Answer(call_id, "question", answer)
    /\ UNCHANGED <<lastEvent, emitted, vmEvent, entry>>
    /\ UNCHANGED side

ExternalCallResult ==
    /\ lastEvent.kind \in CallKinds
    /\ \E call_id \in CallIds(lastEvent), term \in {NoTerm, Num(1)} :
          /\ SetSelf(external_call_result(Self, call_id, term))
          /\ hostAnswer' = Answer(call_id, "call", term)
    /\ UNCHANGED <<lastEvent, emitted, vmEvent, entry>>
    /\ UNCHANGED side

Next == Run \/ ExternalQuestionResult \/ ExternalCallResult

Spec == Init /\ [][Next]_vars

\* ------------------------------------------------- Inverter::clone_runnable
\* A variant whose clone holds a copy of the parent's stack.
clone_runnable_deep(self) ==
    [exists |-> TRUE, shared |-> FALSE, own |-> self.bindings, vm |-> self.vm,
     bsp |-> self.bsp, results |-> self.results, lastEvent |-> NoEvent,
     emitted |-> self.results, made |-> self.vm]

\* The derived Clone: the sub-VM, bsp and the results buffer are copied, the
\* Rc of the parent's stack is cloned and so names the same stack. The
\* history of the clone starts with the results the buffer holds.
clone_runnable(self) ==
    [exists |-> TRUE, shared |-> TRUE, own |-> <<>>, vm |-> self.vm,
     bsp |-> self.bsp, results |-> self.results, lastEvent |-> NoEvent,
     emitted |-> self.results, made |-> self.vm]

\* The stack the clone's bindings field names.
TwinBindings == IF twin.shared THEN bindings ELSE twin.own

TwinSelf ==
    [vm |-> twin.vm, bindings |-> TwinBindings, bsp |-> twin.bsp, results |-> twin.results]

\* The two sub-VMs together stay within the bounds of one: while one runs,
\* what the other has emitted and pushed since the clone was made counts too.
Used(v) ==
    IF twin.exists
    THEN [nresults |-> v.nresults - twin.made.nresults,
          npushed |-> v.npushed - twin.made.npushed]
    ELSE [nresults |-> 0, npushed |-> 0]

Charge(self, u) ==
    [self EXCEPT !.vm.nresults = @ + u.nresults, !.vm.npushed = @ + u.npushed]

Refund(v, u) == [v EXCEPT !.nresults = @ - u.nresults, !.npushed = @ - u.npushed]

\* Who returned Done over a buffer that was not empty, and over which results.
Logged(who, event, em) ==
    IF event.kind = "Done" /\ em # <<>>
    THEN Append(appended, [who |-> who, em |-> em])
    ELSE appended

\* The host clones the Inverter while its query waits for an answer.
CloneRunnable ==
    /\ ~twin.exists
    /\ lastEvent.kind \in ExternalKinds
    /\ twin' = clone_runnable(Self)
    /\ UNCHANGED <<inverterVars, fn, oso, appended, server>>

\* run on the original, beside its clone if there is one.
RunOriginal ==
    /\ ~Finished
    /\ LET u == Used(IF twin.exists THEN twin.vm ELSE vm)
       IN  \E r \in RunLoop(Charge(Self, u),
                            IF lastEvent.kind = "Done" THEN <<>> ELSE emitted) :
              /\ vm' = Refund(r.out.self.vm, u)
              /\ bindings' = r.out.self.bindings
              /\ bsp' = r.out.self.bsp
              /\ results' = r.out.self.results
              /\ lastEvent' = r.out.event
              /\ emitted' = r.emitted
              /\ vmEvent' = r.vmEvent
              /\ appended' = Logged("original", r.out.event, r.emitted)
    /\ hostAnswer' = NoAnswer
    /\ entry' = IF lastEvent.kind = "Done" THEN bindings ELSE entry
    /\ UNCHANGED <<fn, oso, twin, server>>

\* run on the clone.
RunClone ==
    /\ twin.exists
    /\ twin.lastEvent.kind \notin {"Error", "Panic"}
    /\ LET u == Used(vm)
       IN  \E r \in RunLoop(Charge(TwinSelf, u),
                            IF twin.lastEvent.kind = "Done" THEN <<>> ELSE twin.emitted) :
              /\ twin' = [twin EXCEPT !.vm = Refund(r.out.self.vm, u),
                                      !.results = r.out.self.results,
                                      !.lastEvent = r.out.event,
                                      !.emitted = r.emitted,
                                      !.own = IF twin.shared THEN @
                                              ELSE r.out.self.bindings]
              /\ bindings' = IF twin.shared THEN r.out.self.bindings ELSE bindings
              /\ appended' = Logged("clone", r.out.event, r.emitted)
    /\ UNCHANGED <<vm, bsp, results, lastEvent, emitted, vmEvent, hostAnswer, entry, fn, oso,
                   server>>

NextClone == CloneRunnable \/ RunOriginal \/ RunClone

\* The negation is entered with no variable bound yet.
InitClone == Init /\ bindings = <<>>

SpecClone == InitClone /\ [][NextClone]_vars

\* ------------------------------------------------------- reading a state
\* State of a variable before the negation.
PreState(v) == variable_state_at_point(entry, v, Len(entry))

Occurs(v, r) == \E j \in 1..Len(r) : r[j].var = v

\* Value of the latest binding of v in the result stack r.
LatestValue(v, r) == r[LatestIndex(r, v, Len(r))].value

\* The variables some result binds and that were not Bound before the negation.
InvertedVars ==
    {v \in Vars : PreState(v).st # "Bound" /\ \E i \in 1..Len(emitted) : Occurs(v, emitted[i])}

\* Some result binds a variable that was Bound before to another value.
Inconsistent ==
    \E i \in 1..Len(emitted) : \E j \in 1..Len(emitted[i]) :
        LET st == PreState(emitted[i][j].var)
        IN  st.st = "Bound" /\ st.value # emitted[i][j].value

\* What the shared stack holds above its contents at entry.
Added == SubSeq(bindings, Len(entry) + 1, Len(bindings))

AddedVars == {Added[k].var : k \in 1..Len(Added)}

FinalValue(v) == Added[CHOOSE k \in 1..Len(Added) : Added[k].var = v].value

SubQueryDone == vmEvent.kind = "Done"

\* ------------------------------------------------------------------ claims
\* C1: when the sub-query is done without having emitted a result, run
\* returns Done{result: true} (no error, no panic) and the shared stack is
\* what it was at entry.
C1_NoResultSucceeds ==
    (SubQueryDone /\ emitted = <<>>) =>
        (lastEvent = DoneEvent(TRUE) /\ bindings = entry)

C1_Witness ==
    /\ SubQueryDone /\ emitted = <<>>
    /\ lastEvent = DoneEvent(TRUE)
    /\ entry # <<>>
    /\ vm.genid > 0

\* C2: when the sub-query emitted a result and some variable has an inverted
\* binding, run returns Done{result: true} and the shared stack is its
\* contents at entry (bsp bindings) followed by exactly one binding for each
\* such variable.
C2_InvertedBindingsSpliced ==
    (SubQueryDone /\ emitted # <<>> /\ ~Inconsistent /\ InvertedVars # {}) =>
        /\ lastEvent = DoneEvent(TRUE)
        /\ SubSeq(bindings, 1, bsp) = entry
        /\ Len(bindings) = bsp + Cardinality(InvertedVars)
        /\ AddedVars = InvertedVars

C2_Witness ==
    /\ SubQueryDone /\ Len(emitted) = 2 /\ ~Inconsistent
    /\ InvertedVars = Vars
    /\ lastEvent = DoneEvent(TRUE)
    /\ Len(Added) = 2

\* C3 as stated: a result was emitted, the merge holds no variable, and run
\* returns Done{result: true} without appending.
C3_Original ==
    (SubQueryDone /\ emitted # <<>> /\ ~Inconsistent /\ InvertedVars = {}) =>
        (lastEvent = DoneEvent(TRUE) /\ bindings = entry)

\* C3 amended: when a result was emitted and the merge holds no variable, run
\* returns Done{result: false} and appends nothing to the shared stack.
C3_NothingToAddFails ==
    (SubQueryDone /\ emitted # <<>> /\ ~Inconsistent /\ InvertedVars = {}) =>
        (lastEvent = DoneEvent(FALSE) /\ bindings = entry)

C3_Witness ==
    /\ SubQueryDone /\ emitted # <<>>
    /\ \A i \in 1..Len(emitted) : emitted[i] = <<>>
    /\ lastEvent = DoneEvent(FALSE)
    /\ bindings = entry

\* C4: run returns Done{result: false} exactly when a result was emitted and
\* no result contributes an inverted binding, and then the shared stack is
\* unchanged.
C4_FailsExactlyWithoutInversion ==
    lastEvent.kind = "Done" =>
        /\ (lastEvent.result = FALSE) <=> (emitted # <<>> /\ InvertedVars = {})
        /\ (lastEvent.result = FALSE) => bindings = entry

C4_Witness ==
    /\ lastEvent = DoneEvent(FALSE)
    /\ bindings = entry
    /\ \E i \in 1..Len(emitted) : \E j \in 1..Len(emitted[i]) :
          PreState(emitted[i][j].var) = Bound(emitted[i][j].value)

\* ---------------------------------------------- meaning of a constraint
\* Whether the comparison or connective c holds when its variable is s.
RECURSIVE Holds(_, _)
Holds(c, s) ==
    CASE c.operator = "And"   -> \A k \in 1..Len(c.args) : Holds(c.args[k], s)
      [] c.operator = "Or"    -> \E k \in 1..Len(c.args) : Holds(c.args[k], s)
      [] c.operator = "Gt"    -> s > c.args[2].n
      [] c.operator = "Geq"   -> s >= c.args[2].n
      [] c.operator = "Lt"    -> s < c.args[2].n
      [] c.operator = "Leq"   -> s <= c.args[2].n
      [] c.operator = "Unify" -> s = c.args[2].n
      [] c.operator = "Neq"   -> s # c.args[2].n

HoldsAll(cs, s) == \A k \in 1..Len(cs) : Holds(cs[k], s)

From(cs, n) == SubSeq(cs, n + 1, Len(cs))

Samples == -2..15

\* The results in which v occurs.
ResultsWith(v) == {i \in 1..Len(emitted) : Occurs(v, emitted[i])}

\* Number of constraints v held before the negation.
Csp(v) == IF PreState(v).st = "Partial" THEN Len(PreState(v).e.args) ELSE 0

\* C5: a variable that occurs in several results ends with an expression
\* that holds the inverted constraints of every result it occurs in; no
\* result's contribution is overwritten or dropped.
C5_MergedByConjunction ==
    lastEvent.kind = "Done" =>
        \A v \in InvertedVars : \A i \in ResultsWith(v) :
            /\ v \in AddedVars
            /\ Range(fold_term(v, PreState(v), LatestValue(v, emitted[i])).args)
                   \subseteq Range(FinalValue(v).args)

C5_Witness ==
    /\ lastEvent.kind = "Done"
    /\ \E v \in InvertedVars :
          /\ ResultsWith(v) = {1, 2}
          /\ LatestValue(v, emitted[1]) # LatestValue(v, emitted[2])
          /\ Len(FinalValue(v).args) = 2

\* C6: the expression of a variable that occurs in one result comes back
\* with its first csp constraints as they were (csp = the number of
\* constraints it held before the negation, 0 unless it was Partial) and
\* the constraints from csp on replaced by their negation.
C6_PrefixKeptRestInverted ==
    lastEvent.kind = "Done" =>
        \A v \in InvertedVars :
            (Cardinality(ResultsWith(v)) = 1
             /\ \A i \in ResultsWith(v) : IsExpr(LatestValue(v, emitted[i]))) =>
                LET i   == CHOOSE k \in ResultsWith(v) : TRUE
                    val == LatestValue(v, emitted[i])
                    n   == Csp(v)
                IN  /\ v \in AddedVars
                    /\ SubSeq(FinalValue(v).args, 1, n) = SubSeq(val.args, 1, n)
                    /\ PreState(v).st = "Partial" =>
                          SubSeq(FinalValue(v).args, 1, n) = PreState(v).e.args
                    /\ \A s \in Samples :
                          HoldsAll(From(FinalValue(v).args, n), s)
                              = ~HoldsAll(From(val.args, n), s)

C6_Witness ==
    /\ lastEvent.kind = "Done"
    /\ Csp("x") = 2
    /\ ResultsWith("x") = {1}
    /\ Len(LatestValue("x", emitted[1]).args) = 4
    /\ SubSeq(FinalValue("x").args, 1, 2) = PreState("x").e.args

XGt1 == <<Binding("x", Expr("And", <<Expr("Gt", <<Var("x"), Num(1)>>)>>))>>
XGt1AndLt0 ==
    <<Binding("x", Expr("And", <<Expr("Gt", <<Var("x"), Num(1)>>),
                                 Expr("Lt", <<Var("x"), Num(0)>>)>>))>>
Samples8 == {-1, 0, 1, 5}

\* C8: after `x > 1 and not (x < 0)` the constraint on x holds of a sampled
\* value exactly when x > 1 and x >= 0 does.
C8_PartialInversion ==
    (lastEvent.kind = "Done" /\ entry = XGt1 /\ emitted = <<XGt1AndLt0>>) =>
        /\ "x" \in AddedVars
        /\ \A s \in Samples8 : Holds(FinalValue("x"), s) = (s > 1 /\ s >= 0)

C8_Witness ==
    /\ lastEvent = DoneEvent(TRUE) /\ entry = XGt1 /\ emitted = <<XGt1AndLt0>>
    /\ Len(bindings) = 2
    /\ Holds(bindings[2].value, 5) /\ ~Holds(bindings[2].value, 1)

\* C9: an external event of the sub-VM is returned by run as it is, call id
\* included; the answer of the host reaches the sub-VM under the call id and
\* with the value the host gave, and changes nothing else of the sub-run.
C9_PassThrough ==
    [][ /\ vmEvent'.kind \in ExternalKinds => lastEvent' = vmEvent'
        /\ hostAnswer' # NoAnswer =>
              /\ vm'.answer = hostAnswer'
              /\ [vm' EXCEPT !.answer = vm.answer] = vm
              /\ results' = results
      ]_vars

C9_Witness ==
    /\ lastEvent.kind \in ExternalKinds
    /\ lastEvent.call_id = MaxCalls
    /\ hostAnswer # NoAnswer /\ vm.answer = hostAnswer
    /\ Len(results) = MaxResults

\* C10: a run that does not return Done leaves the shared stack as it is,
\* and so does an answer of the host: nothing is committed to the parent
\* before the run that returns Done.
C10_NoCommitBeforeDone ==
    [][lastEvent'.kind # "Done" => bindings' = bindings]_vars

C10_Witness ==
    /\ lastEvent.kind \in ExternalKinds
    /\ SumLen(results) = MaxBindings
    /\ hostAnswer # NoAnswer
    /\ bindings = entry

\* The inverted bindings of the i-th emitted result.
InvertedResult(i) == invert_partials(emitted[i], entry, Len(entry))

\* The merge of the inverted bindings of every emitted result.
MergedResults ==
    reduce_constraints([i \in 1..Len(emitted) |-> InvertedResult(i).bindings])

\* C16: run never returns a Result; each one is drained from the sub-VM
\* (whose stack is back at bsp, its prefix untouched) into the buffer, which
\* holds every result emitted so far across suspensions; the bindings
\* appended at Done are the inversion and merge of all of them in order.
C16_ResultsCollected ==
    /\ lastEvent.kind # "Result"
    /\ Len(vm.bindings) = bsp
    /\ vm.bindings = SubSeq(bindings, 1, bsp)
    /\ lastEvent.kind \notin {"Done", "Panic"} => results = emitted
    /\ lastEvent.kind = "Done" =>
          Added = [k \in 1..Len(MergedResults.vars) |->
                      Binding(MergedResults.vars[k],
                              MergedResults.map[MergedResults.vars[k]])]

C16_Witness ==
    /\ lastEvent.kind = "Done"
    /\ vm.genid > 0
    /\ Len(emitted) = 2 /\ emitted[1] # emitted[2] /\ emitted[1] # <<>>
    /\ Len(Added) = 2
    /\ Len(vm.bindings) = bsp

\* C19: every binding invert_partials yields for a result of the sub-query
\* holds an expression, the merge of those bindings meets no illegal state,
\* and the only panic of run is an inconsistent rebinding.
C19_OnlyExpressionsMerged ==
    /\ \A i \in 1..Len(emitted) : \A k \in 1..Len(InvertedResult(i).bindings) :
          IsExpr(InvertedResult(i).bindings[k].value)
    /\ ~MergedResults.panic
    /\ lastEvent = PanicEvent => Inconsistent

C19_Witness ==
    /\ lastEvent.kind = "Done"
    /\ \E v \in InvertedVars :
          /\ ResultsWith(v) = {1, 2}
          /\ LatestValue(v, emitted[1]) = Num(1)
          /\ LatestValue(v, emitted[2]) = Num(1)
          /\ Len(FinalValue(v).args) = 2

\* C20: results is empty whenever run has returned Done, and a run of an
\* Inverter that has returned Done (the sub-VM reporting Done again) returns
\* Done{result: true} and appends nothing.
C20_EmptyBufferAfterDone ==
    [][ /\ lastEvent'.kind = "Done" => results' = <<>>
        /\ lastEvent.kind = "Done" =>
              (lastEvent' = DoneEvent(TRUE) /\ bindings' = bindings)
      ]_vars

\* Reached by running again after a Done{result: false}: results were
\* emitted, none since the last Done, and nothing was ever appended.
C20_Witness ==
    /\ lastEvent = DoneEvent(TRUE)
    /\ emitted = <<>> /\ vm.nresults > 0
    /\ Len(bindings) = bsp
    /\ results = <<>>

\* ------------------------------------------- the functions on their own
\* Bindings the functions are applied to: a value or a one-constraint
\* expression for each variable.
FnBindings ==
    {Binding(v, Num(1)) : v \in Vars}
    \cup {Binding(v, Expr("And", <<Expr("Neq", <<Var(v), Num(1)>>)>>)) : v \in Vars}

\* Binding stacks of at most n bindings.
FnStacks(n) == UNION {[1..m -> FnBindings] : m \in 0..n}

\* Lists of at most k binding stacks that hold at most n bindings in all.
RECURSIVE FnStackLists(_, _)
FnStackLists(k, n) ==
    IF k = 0 THEN {<<>>}
    ELSE {<<>>} \cup UNION {{<<s>> \o rest : rest \in FnStackLists(k - 1, n - Len(s))} :
                              s \in FnStacks(n)}

\* What the sub-VM can push above stack with at most n bindings.
VmResults(stack, n) ==
    {SubSeq(e, Len(stack) + 1, Len(e)) : e \in Extensions(stack, n)}

\* The buffers the Result arm can have filled: at most k results of the
\* sub-VM that pushed at most n bindings in all.
RECURSIVE ResultBuffers(_, _, _)
ResultBuffers(stack, k, n) ==
    IF k = 0 THEN {<<>>}
    ELSE {<<>>} \cup UNION {{<<r>> \o rest : rest \in ResultBuffers(stack, k - 1, n - Len(r))} :
                              r \in VmResults(stack, n)}

ApplyDedupe ==
    /\ fn = NoCall
    /\ \E bs \in FnStacks(MaxFnLen) :
          fn' = [name |-> "dedupe_bindings", arg |-> bs, out |-> dedupe_bindings(bs)]
    /\ UNCHANGED <<inverterVars, oso, twin, appended, server>>

ApplyReduce ==
    /\ fn = NoCall
    /\ \E stacks \in FnStackLists(MaxResults, MaxFnLen) :
          fn' = [name |-> "reduce_constraints", arg |-> stacks,
                 out |-> reduce_constraints(stacks)]
    /\ UNCHANGED <<inverterVars, oso, twin, appended, server>>

\* The Done arm of run on the Inverter as constructed, its buffer filled.
ApplyOnDone ==
    /\ fn = NoCall
    /\ \E buffer \in ResultBuffers(vm.bindings, MaxResults, MaxBindings) :
          LET r == on_done([Self EXCEPT !.results = buffer])
          IN  fn' = [name |-> "on_done", arg |-> buffer,
                     out |-> [event |-> r.event, bindings |-> r.self.bindings,
                              results |-> r.self.results]]
    /\ UNCHANGED <<inverterVars, oso, twin, appended, server>>

\* ------------------------------------------------------------ unification
List(items) == [tag |-> "List", items |-> items]

Fail(stack) == [ok |-> FALSE, stack |-> stack]
Succeed(stack) == [ok |-> TRUE, stack |-> stack]

\* One attempt, the stack threaded through the sub-terms: a variable binds
\* to a concrete term, two unbound variables merge into a cycle, a partial
\* gains a Unify constraint, a bound variable stands for its value, lists
\* unify pointwise. On failure the stack is as far as the attempt got.
RECURSIVE unify_terms(_, _, _), unify_var(_, _, _), unify_lists(_, _, _)
unify_terms(l, r, stack) ==
    CASE l.tag = "Variable" -> unify_var(l.name, r, stack)
      [] l.tag # "Variable" /\ r.tag = "Variable" -> unify_var(r.name, l, stack)
      [] l.tag = "List" /\ r.tag = "List" ->
           IF Len(l.items) = Len(r.items)
           THEN unify_lists(l.items, r.items, stack)
           ELSE Fail(stack)
      [] l.tag = "Number" /\ r.tag = "Number" ->
           IF l.n = r.n THEN Succeed(stack) ELSE Fail(stack)
      [] OTHER -> Fail(stack)

unify_var(v, t, stack) ==
    LET st == variable_state_at_point(stack, v, Len(stack))
        ts == IF t.tag = "Variable"
              THEN variable_state_at_point(stack, t.name, Len(stack))
              ELSE Bound(t)
        constrained(var, e, with) ==
            Binding(var, Expr("And", Append(e.args, Expr("Unify", <<Var(var), with>>))))
    IN  CASE t.tag = "Variable" /\ t.name = v -> Succeed(stack)
          [] OTHER ->
             CASE st.st = "Bound" -> unify_terms(st.value, t, stack)
               [] st.st = "Partial" ->
                    IF t.tag = "Variable" /\ ts.st = "Bound"
                    THEN unify_var(v, ts.value, stack)
                    ELSE Succeed(Append(stack, constrained(v, st.e, t)))
               [] OTHER ->
                    IF t.tag # "Variable"
                    THEN Succeed(Append(stack, Binding(v, t)))
                    ELSE CASE ts.st = "Bound" -> Succeed(Append(stack, Binding(v, ts.value)))
                           [] ts.st = "Partial" ->
                                Succeed(Append(stack, constrained(t.name, ts.e, Var(v))))
                           [] OTHER ->
                                Succeed(stack \o <<Binding(v, t), Binding(t.name, Var(v))>>)

unify_lists(ls, rs, stack) ==
    IF ls = <<>> THEN Succeed(stack)
    ELSE LET h == unify_terms(Head(ls), Head(rs), stack)
         IN  IF h.ok THEN unify_lists(Tail(ls), Tail(rs), h.stack) ELSE h

\* A variant that leaves the stack where the failed attempt got to.
unify_no_restore(l, r, stack) == unify_terms(l, r, stack)

\* unify: a failed attempt truncates the stack to its length before.
unify(l, r, stack) ==
    LET a == unify_terms(l, r, stack)
    IN  IF a.ok THEN a ELSE Fail(SubSeq(a.stack, 1, Len(stack)))

UAtoms == {Num(1), Num(2), Var("x"), Var("y")}

UTerms == UAtoms \cup {List(s) : s \in UNION {[1..n -> UAtoms] : n \in 0..MaxListLen}}

\* unify applied to two terms over the stack the engine holds.
ApplyUnify ==
    /\ fn = NoCall
    /\ \E l \in UTerms, r \in UTerms :
          fn' = [name |-> "unify", arg |-> [left |-> l, right |-> r, stack |-> bindings],
                 out |-> unify(l, r, bindings)]
    /\ UNCHANGED <<inverterVars, oso, twin, appended, server>>

NextFn == ApplyDedupe \/ ApplyReduce \/ ApplyOnDone \/ ApplyUnify

SpecFn == Init /\ [][NextFn]_vars

\* The policy engine on its own, beside an Inverter that is not run.
InitRoles == Init /\ bindings = <<>>

SpecRoles == InitRoles /\ [][NextRoles]_vars

\* The analyzer's server on its own, beside an Inverter that is not run.
SpecServer == InitRoles /\ [][NextServer]_vars

\* Some result of the buffer binds a variable that was Bound before the
\* negation to another value.
InconsistentIn(buffer) ==
    \E i \in 1..Len(buffer) : \E j \in 1..Len(buffer[i]) :
        LET st == variable_state_at_point(vm.bindings, buffer[i][j].var, bsp)
        IN  st.st = "Bound" /\ st.value # buffer[i][j].value

\* The stacks of the list that bind v.
StacksWith(v, stacks) == {i \in 1..Len(stacks) : Occurs(v, stacks[i])}

\* The merge meets a value that is no expression for a variable that has an
\* entry: some variable is bound by two stacks, and not to expressions only.
MeetsNonExpression(stacks) ==
    \E v \in Vars :
        /\ Cardinality(StacksWith(v, stacks)) >= 2
        /\ \E i \in StacksWith(v, stacks) : ~IsExpr(LatestValue(v, stacks[i]))

\* C11: a result that binds a variable Bound before the negation to another
\* value makes the Done arm panic, with no Done returned and nothing appended;
\* reduce_constraints panics exactly when it meets a value that is no
\* expression for a variable that already has an entry.
C11_InconsistentRebindingPanics ==
    /\ fn.name = "on_done" =>
          (InconsistentIn(fn.arg) =>
              (fn.out.event = PanicEvent /\ fn.out.bindings = bindings))
    /\ fn.name = "reduce_constraints" =>
          (fn.out.panic <=> MeetsNonExpression(fn.arg))

C11_Witness ==
    /\ fn.name = "on_done"
    /\ InconsistentIn(fn.arg)
    /\ fn.out.event = PanicEvent
    /\ fn.out.bindings = bindings

\* Index of the last binding of v in the stack s.
LastIndexOf(v, s) == CHOOSE j \in 1..Len(s) :
    s[j].var = v /\ \A k \in (j + 1)..Len(s) : s[k].var # v

\* C17: the output of dedupe_bindings holds each variable of the input
\* exactly once, with the value of its last binding in the input, and no
\* other variable.
C17_LatestBindingKept ==
    fn.name = "dedupe_bindings" =>
        /\ {fn.out[k].var : k \in 1..Len(fn.out)} = {fn.arg[j].var : j \in 1..Len(fn.arg)}
        /\ \A k, l \in 1..Len(fn.out) : fn.out[k].var = fn.out[l].var => k = l
        /\ \A k \in 1..Len(fn.out) :
              fn.out[k].value = fn.arg[LastIndexOf(fn.out[k].var, fn.arg)].value

C17_Witness ==
    /\ fn.name = "dedupe_bindings"
    /\ Len(fn.arg) = 3 /\ Len(fn.out) = 2
    /\ fn.arg[1].var = fn.arg[3].var
    /\ fn.arg[1].value # fn.arg[3].value
    /\ \E k \in 1..2 : fn.out[k] = fn.arg[3]

\* The variables in the order reduce_constraints first meets them: stack by
\* stack, each stack from its top.
RECURSIVE FirstMet(_, _)
FirstMet(flat, seen) ==
    IF flat = <<>> THEN <<>>
    ELSE IF Head(flat).var \in seen THEN FirstMet(Tail(flat), seen)
         ELSE <<Head(flat).var>> \o FirstMet(Tail(flat), seen \cup {Head(flat).var})

RECURSIVE TopDown(_)
TopDown(stacks) ==
    IF stacks = <<>> THEN <<>> ELSE Reverse(Head(stacks)) \o TopDown(Tail(stacks))

\* The bindings of a result whose variable was not Bound before the negation.
RECURSIVE NotBound(_)
NotBound(r) ==
    IF r = <<>> THEN <<>>
    ELSE IF variable_state_at_point(vm.bindings, Head(r).var, bsp).st = "Bound"
         THEN NotBound(Tail(r))
         ELSE <<Head(r)>> \o NotBound(Tail(r))

\* C18: the map and the list reduce_constraints returns name the same
\* variables, the list has no duplicate and is in first-insertion order; the
\* Done arm never fails the key assertion and appends in that order.
C18_KeysMatchInsertionOrder ==
    /\ (fn.name = "reduce_constraints" /\ ~fn.out.panic) =>
          /\ DOMAIN fn.out.map = Range(fn.out.vars)
          /\ Cardinality(Range(fn.out.vars)) = Len(fn.out.vars)
          /\ fn.out.vars = FirstMet(TopDown(fn.arg), {})
    /\ (fn.name = "on_done" /\ ~InconsistentIn(fn.arg)) =>
          /\ fn.out.event.kind = "Done"
          /\ LET added == SubSeq(fn.out.bindings, bsp + 1, Len(fn.out.bindings))
             IN  [k \in 1..Len(added) |-> added[k].var]
                    = FirstMet(TopDown([i \in 1..Len(fn.arg) |-> NotBound(fn.arg[i])]), {})

C18_Witness ==
    /\ fn.name = "reduce_constraints"
    /\ ~fn.out.panic
    /\ Len(fn.arg) = 2 /\ Len(fn.arg[1]) = 2 /\ Len(fn.arg[2]) = 1
    /\ fn.arg[1][1].var # fn.arg[1][2].var
    /\ fn.arg[2][1].var = fn.arg[1][1].var
    /\ fn.out.vars = <<fn.arg[1][2].var, fn.arg[1][1].var>>

\* C15: when unify fails, the binding stack after the attempt is the stack
\* before it, in length and in contents, also when the attempt had bound
\* sub-terms before it met the failure.
C15_FailedUnifyLeavesNoTrace ==
    (fn.name = "unify" /\ ~fn.out.ok) => fn.out.stack = fn.arg.stack

C15_Witness ==
    /\ fn.name = "unify"
    /\ ~fn.out.ok
    /\ Len(unify_terms(fn.arg.left, fn.arg.right, fn.arg.stack).stack) > Len(fn.arg.stack)
    /\ fn.arg.stack # <<>>
    /\ fn.out.stack = fn.arg.stack

\* The organisation a host object is or lies under.
OrgOf(r) ==
    CASE r.type = "Org" -> r
      [] r.type = "Repo" -> r.org
      [] r.type = "Issue" -> r.repo.org

\* What the worked example grants each organisation role on the objects
\* of each type under the organisation.
ExampleGrants(role, type) ==
    CASE role = "owner" /\ type = "Org" -> {"invite", "create_repo"}
      [] role = "owner" /\ type = "Repo" -> {"push", "pull"}
      [] role = "owner" /\ type = "Issue" -> {"edit"}
      [] role = "member" /\ type = "Org" -> {"create_repo"}
      [] role = "member" /\ type = "Repo" -> {"pull"}
      [] OTHER -> {}

\* C12: with roles enabled over the org/repo/issue policy, allow has a
\* result exactly when the actor holds a role on the organisation the
\* resource is or lies under and the role's implies closure grants the
\* action: an owner invite and create_repo on the organisation, push and pull
\* on its repositories, edit on their issues; a member create_repo and pull;
\* nothing without a role or with a role on another organisation.
C12_RoleBasedAllow ==
    (oso.last = "query_rule" /\ oso.query.rule = "allow"
        /\ oso.roles_enabled /\ "pol" \in oso.kb) =>
        (oso.nonempty <=>
            \E role \in oso.query.actor.roles :
                /\ role.resource = OrgOf(oso.query.resource)
                /\ oso.query.action \in ExampleGrants(role.name, oso.query.resource.type))

C12_Witness ==
    /\ oso.last = "query_rule" /\ oso.query.rule = "allow"
    /\ oso.roles_enabled /\ "pol" \in oso.kb
    /\ oso.query.actor = User("gabe", {osohq_owner})
    /\ oso.query.action = "pull"
    /\ oso.query.resource = oso_repo
    /\ oso.nonempty

\* Some resource of the rule set has neither actions nor roles.
EmptyResourceIn(kb) == \E d \in Decls(kb) : Len(d.actions) = 0 /\ Cardinality(d.roles) = 0

\* C13: once roles are enabled, a load from a string or a file fails exactly
\* when its rule set declares a resource with neither actions nor roles, with
\* a RolesValidation error "Must define actions or roles." and no context.
C13_RevalidationOnLoad ==
    (oso.last \in {"load_str", "load_file"} /\ oso.roles_enabled) =>
        /\ EmptyResourceIn(oso.before.kb \cup {oso.src}) =>
              /\ oso.error.kind = "RolesValidation"
              /\ oso.error.msg = "Must define actions or roles."
              /\ oso.error.context = "None"
        /\ ~EmptyResourceIn(oso.before.kb \cup {oso.src}) => oso.error = NoError

C13_Witness ==
    /\ oso.last = "load_file"
    /\ oso.roles_enabled
    /\ "VALID_POL" \in oso.before.kb
    /\ oso.src = "invalid_roles.polar"
    /\ oso.error = RolesValidationError("Must define actions or roles.")

\* C14: a load that fails roles validation commits nothing: every query has
\* the results it had before the load, and neither the rules nor the compiled
\* role declarations have changed.
C14_FailedLoadCommitsNothing ==
    (oso.last \in {"load_str", "load_file"} /\ oso.error.kind = "RolesValidation") =>
        /\ AllResults(oso) = oso.before.results
        /\ oso.compiled = oso.before.compiled
        /\ oso.kb = oso.before.kb

C14_Witness ==
    /\ oso.last = "load_str"
    /\ oso.src = "invalid_pol"
    /\ oso.error.kind = "RolesValidation"
    /\ oso.before.results # {}
    /\ AllResults(oso) = oso.before.results

\* The bindings a Done appends for the results em: each result inverted
\* against the stack below bsp, the outcomes merged.
ExpectedAdded(em) ==
    LET below == SubSeq(bindings, 1, bsp)
        merged == reduce_constraints(
                      [i \in 1..Len(em) |-> invert_partials(em[i], below, bsp).bindings])
    IN  [k \in 1..Len(merged.vars) |-> Binding(merged.vars[k], merged.map[merged.vars[k]])]

RECURSIVE AllAppended(_)
AllAppended(log) ==
    IF log = <<>> THEN <<>> ELSE ExpectedAdded(Head(log).em) \o AllAppended(Tail(log))

\* The parent's stack holds, above bsp, what every Done of the original and
\* of the clone appended, in the order they returned.
SharedStackHoldsAll ==
    SubSeq(bindings, bsp + 1, Len(bindings)) = AllAppended(appended)

\* C21: a run of the clone leaves the original's sub-VM and results buffer
\* as they are, and a run of the original the clone's; both append to the
\* one parent stack, which so holds the inverted bindings of each Done, twice
\* when both return Done over the same results.
C21_CloneSharesParentStack ==
    /\ []SharedStackHoldsAll
    /\ [][ /\ (twin.exists /\ twin' # twin) => (vm' = vm /\ results' = results)
           /\ (twin.exists /\ (vm' # vm \/ results' # results)) =>
                 (twin'.vm = twin.vm /\ twin'.results = twin.results)
         ]_vars

C21_Witness ==
    /\ twin.exists
    /\ lastEvent = DoneEvent(TRUE) /\ twin.lastEvent = DoneEvent(TRUE)
    /\ Len(appended) = 2
    /\ appended[1].who # appended[2].who
    /\ appended[1].em = appended[2].em
    /\ ExpectedAdded(appended[1].em) # <<>>
    /\ SubSeq(bindings, bsp + 1, Len(bindings))
          = ExpectedAdded(appended[1].em) \o ExpectedAdded(appended[1].em)

\* ---------------------------------------------- the analyzer's server: claims
\* The steps of the handlers that change the knowledge base, the computation
\* and the queueing of the diagnostics included.
ChangingSteps == {"load", "get_unused_rules", "push_diagnostics", "rename", "delete"}

\* The steps of the handlers that only read it.
ReadingSteps == {"get_document_symbols", "get_hover"}

\* C22: every step of a handler that changes the knowledge base (open, edit,
\* rename, delete), the computation of the diagnostics included, is taken
\* under the analyzer's write lock; the handlers of document symbols and of
\* hover read under the read lock only; no guard outlives its handler. So no
\* load is taken while a reader holds the lock, and no read while a writer
\* does.
C22_WriteLockAroundChanges ==
    /\ server.lock = "free"
    /\ \A i \in 1..Len(server.trace) :
          /\ server.trace[i].op \in ChangingSteps => server.trace[i].lock = "write"
          /\ server.trace[i].op \in ReadingSteps => server.trace[i].lock = "read"
    /\ (server.msg.type = "Notification"
          /\ server.msg.method \in {"textDocument/didOpen", "textDocument/didChange",
                                     "workspace/didRenameFiles", "workspace/didDeleteFiles"})
         => \A i \in 1..Len(server.trace) : server.trace[i].lock = "write"

\* An open whose text loaded: the load, the search for missing rules and the
\* queueing of the two warnings all happened under the write lock.
C22_Witness ==
    /\ server.msg.type = "Notification"
    /\ server.msg.method = "textDocument/didOpen"
    /\ server.msg.params.text = "calls"
    /\ server.trace = <<[op |-> "load", lock |-> "write"],
                         [op |-> "get_unused_rules", lock |-> "write"],
                         [op |-> "push_diagnostics", lock |-> "write"]>>
    /\ Len(server.queued[1].params.diagnostics) = 2
    /\ server.lock = "free"

\* The message handled last is an edit of one change that carries the whole
\* text.
FullTextEdit ==
    /\ server.msg.type = "Notification"
    /\ server.msg.method = "textDocument/didChange"
    /\ Len(server.msg.params.content_changes) = 1
    /\ ~server.msg.params.content_changes[1].range

\* What the handling of the message handled last is to queue: the response
\* of a request a handler is registered for, the diagnostics of the document
\* opened or edited in full.
QueuesOne ==
    \/ /\ server.msg.type = "Request"
       /\ server.msg.method \in {"textDocument/documentSymbol", "textDocument/completion",
                                  "completionItem/resolve", "textDocument/hover"}
    \/ /\ server.msg.type = "Notification"
       /\ server.msg.method = "textDocument/didOpen"
    \/ FullTextEdit

\* C23: between two messages the pending queue is empty; handling a message
\* queued one message if it was a request with a registered handler (its
\* response), an open or a full-text edit (the diagnostics of its uri), and
\* none otherwise; what was queued was sent, in the order it was queued.
C23_QueueDrainedInOrder ==
    /\ server.pending = <<>>
    /\ Len(server.queued) = (IF QueuesOne THEN 1 ELSE 0)
    /\ QueuesOne =>
          IF server.msg.type = "Request"
          THEN /\ server.queued[1].type = "Response"
               /\ server.queued[1].id = server.msg.id
          ELSE /\ server.queued[1].method = "textDocument/publishDiagnostics"
               /\ server.queued[1].params.uri = server.msg.params.uri
    /\ SelectSeq(server.sent, LAMBDA m : m \in Range(server.queued)) = server.queued

\* A full-text edit: its diagnostics were queued, sent, and the queue is
\* empty again.
C23_Witness ==
    /\ FullTextEdit
    /\ Len(server.queued) = 1
    /\ server.sent = server.queued
    /\ server.pending = <<>>

\* The message handled last is an edit of more than one change, or of one
\* change that carries a range.
RejectedEdit ==
    /\ server.msg.type = "Notification"
    /\ server.msg.method = "textDocument/didChange"
    /\ \/ Len(server.msg.params.content_changes) > 1
       \/ /\ Len(server.msg.params.content_changes) = 1
          /\ server.msg.params.content_changes[1].range

\* The LogMessage notifications sent while the message handled last was
\* handled.
LogMessages ==
    SelectSeq(server.sent,
              LAMBDA m : m.type = "Notification" /\ m.method = "window/logMessage")

\* What is left of the edit handled last.
EditOutcome ==
    /\ RejectedEdit =>
          /\ server.loads = <<>>
          /\ server.queued = <<>>
          /\ Len(LogMessages) = 1
          /\ server.sent = LogMessages
          /\ server.sent[1].params.typ = "Error"
          /\ server.sent[1].params.message
                = (IF Len(server.msg.params.content_changes) > 1
                   THEN "not sure how to handle multiple changes to the same file"
                   ELSE "incremental changes are not yet supported")
    /\ FullTextEdit =>
          /\ Len(server.loads) = 1
          /\ LogMessages = <<>>

\* C24: an edit of more than one change, or of one change with a range, is
\* rejected: no load is attempted, the knowledge base stays as it was, no
\* diagnostics are queued, and exactly one LogMessage of type Error is sent
\* (and nothing else). An edit of one full-text change attempts exactly one
\* load and sends no LogMessage.
C24_EditRejection ==
    /\ []EditOutcome
    /\ [][RejectedEdit' => server'.kb = server.kb]_vars

\* An edit of two full-text changes, over a knowledge base that holds a
\* document: nothing was loaded or queued and one LogMessage was sent.
C24_Witness ==
    /\ RejectedEdit
    /\ Len(server.msg.params.content_changes) = 2
    /\ ~server.msg.params.content_changes[1].range
    /\ server.kb[server.msg.params.uri] # "none"
    /\ server.loads = <<>>
    /\ Len(server.sent) = 1
    /\ server.sent[1].method = "window/logMessage"

\* The PublishDiagnostics notifications queued while the message handled
\* last was handled, in the order queued.
Published ==
    SelectSeq(server.queued,
              LAMBDA m : /\ m.type = "Notification"
                         /\ m.method = "textDocument/publishDiagnostics")

\* C25: each load attempt queued exactly one PublishDiagnostics, for the uri
\* loaded: after a failed load it carries one diagnostic, of severity Error;
\* after a load that succeeded it carries one Warning for each missing rule
\* the analyzer reports for the uri, in their order, and nothing else: the
\* empty list when there is none.
C25_OnePublishPerLoad ==
    /\ Len(Published) = Len(server.loads)
    /\ \A i \in 1..Len(server.loads) :
          LET attempt == server.loads[i]
              d       == Published[i].params.diagnostics
              unused  == get_unused_rules(server.kb, attempt.uri)
          IN  /\ Published[i].params.uri = attempt.uri
              /\ IF ~attempt.ok
                 THEN /\ Len(d) = 1
                      /\ d[1].severity = "Error"
                 ELSE /\ Len(d) = Len(unused)
                      /\ \A k \in 1..Len(d) :
                            /\ d[k].severity = "Warning"
                            /\ d[k].message
                                  = <<"Rule does not exist: ">> \o unused[k].rule_error

\* A text without missing rules was loaded over a knowledge base that holds
\* another document: the diagnostics published for its uri are the empty
\* list.
C25_Witness ==
    /\ Len(server.loads) = 1
    /\ server.loads[1].ok
    /\ server.loads[1].src = "defs"
    /\ \E u \in Uris : u # server.loads[1].uri /\ server.kb[u] = "calls"
    /\ Published = server.queued
    /\ Published[1].params.uri = server.loads[1].uri
    /\ Published[1].params.diagnostics = <<>>
    /\ server.sent = Published

====
